---------------------------- MODULE Spec2Model ----------------------------
(***************************************************************************)
(* A model of mutt-ldap.py: the LDAP address search of Mutt, made of the   *)
(* plain connection (LDAPConnection), the caching connection               *)
(* (CachedLDAPConnection), the entry formatter (format_columns,            *)
(* format_entry) and the script's __main__ block.                          *)
(*                                                                         *)
(* Text is modelled as a sequence of one-character strings, so that        *)
(* split, join, format, encode and decode are computed as the code         *)
(* computes them.  A cache file is a sequence of pickle opcodes.           *)
(***************************************************************************)
EXTENDS Integers, Sequences, FiniteSets, TLC

VARIABLES
    file,        \* the cache file on disk: [exists, data], data a pickle stream
    active,      \* the invocations of the script that take part in the behaviour
    pc,          \* pc[p]: where invocation p stands in the __main__ block;
                 \* "new" or "api" for a client that calls the classes itself
    run,         \* run[p]: how many runs invocation p has started (for a
                 \* client of the classes: how many calls it has made)
    config,      \* config[p]: the configuration (CONFIG) of p's current run
    query,       \* query[p]: the query string of p's current run
    connection,  \* connection[p]: self.connection, "None" or "session"
    cache,       \* cache[p]: self._cache, a dict as a list of items
    gen,         \* gen[p]: the frame of the generator returned by search()
    server,      \* server[p]: the directory server's side of p's search request
    addresses,   \* addresses[p]: the rows collected by the __main__ loop
    stdout,      \* stdout[p]: the lines printed by the run
    error,       \* error[p]: the exception that ended the run, or "None"
    trace,       \* trace[p]: history of p's current run (requests, polls, file I/O)
    prev,        \* prev[p]: summary of p's previous run
    origin,      \* history: the key, configuration, entries and invocation
                 \* of every _cache_store
    pure         \* the call record of the specifications of the pure functions

vars == << file, active, pc, run, config, query, connection, cache, gen, server,
           addresses, stdout, error, trace, prev, origin, pure >>

mainVars == << file, active, pc, run, config, query, connection, cache, gen,
               server, addresses, stdout, error, trace, prev, origin >>

-----------------------------------------------------------------------------
(* Bounds of the model. *)

\* the most polls of one search that return no data and no completion signal
MaxEmptyPolls == 1
\* the most runs of the script by one invocation slot
MaxRuns == 2

-----------------------------------------------------------------------------
(* Text: sequences of one-character strings. *)

\* the one non-ASCII character of the model, U+00E9, and its UTF-8 bytes
EAcute == "U+00E9"
EAcuteBytes == << "xC3", "xA9" >>

IsSpace(c) == c \in {" ", "\t", "\n"}

RECURSIVE Concat(_)
\* the concatenation of a list of texts
Concat(list) ==
    IF list = << >> THEN << >> ELSE Head(list) \o Concat(Tail(list))

RECURSIVE Join(_, _)
\* sep.join(list)
Join(sep, list) ==
    IF list = << >> THEN << >>
    ELSE IF Len(list) = 1 THEN list[1]
    ELSE list[1] \o sep \o Join(sep, Tail(list))

RECURSIVE SplitFrom(_, _, _)
\* str.split() without arguments: the maximal runs of non-space characters;
\* `word` is the run being read, `s` the text still to read
SplitFrom(s, word, acc) ==
    IF s = << >>
    THEN IF word = << >> THEN acc ELSE Append(acc, word)
    ELSE IF IsSpace(Head(s))
         THEN SplitFrom(Tail(s), << >>,
                        IF word = << >> THEN acc ELSE Append(acc, word))
         ELSE SplitFrom(Tail(s), Append(word, Head(s)), acc)

Split(s) == SplitFrom(s, << >>, << >>)

RECURSIVE Utf8Encode(_)
\* unicode.encode('utf-8'): ASCII characters are one byte each, U+00E9 is two
Utf8Encode(s) ==
    IF s = << >> THEN << >>
    ELSE (IF Head(s) = EAcute THEN EAcuteBytes ELSE << Head(s) >>)
         \o Utf8Encode(Tail(s))

RECURSIVE Utf8Decode(_)
\* unicode(bytes, 'utf-8') on well-formed UTF-8
Utf8Decode(b) ==
    IF b = << >> THEN << >>
    ELSE IF Len(b) >= 2 /\ SubSeq(b, 1, 2) = EAcuteBytes
         THEN << EAcute >> \o Utf8Decode(SubSeq(b, 3, Len(b)))
         ELSE << Head(b) >> \o Utf8Decode(Tail(b))

-----------------------------------------------------------------------------
(* LDAPConnection.search: the filter string. *)

\* u'({0}=*{1}{2})'.format(field, query, post)
FilterTerm(field, q, post) ==
    << "(" >> \o field \o << "=", "*" >> \o q \o post \o << ")" >>

\* the list comprehension over the search fields
FilterTerms(fields, q, post) ==
    [ i \in 1..Len(fields) |-> FilterTerm(fields[i], q, post) ]

\* the separator of the terms: u' '.join
TermSeparator == << " " >>

\* u'(|{0})'.format(u' '.join([...]))
OrFilter(search_fields, q) ==
    LET post   == IF q # << >> THEN << "*" >> ELSE << >>
        fields == Split(search_fields)
    IN  << "(", "|" >> \o Join(TermSeparator, FilterTerms(fields, q, post))
        \o << ")" >>

\* u'(&({0}){1})'.format(query_filter, filterstr)
AndFilter(query_filter, filterstr) ==
    << "(", "&", "(" >> \o query_filter \o << ")" >> \o filterstr \o << ")" >>

\* the filter passed to connection.search: filterstr.encode('utf-8')
FilterStr(search_fields, query_filter, q) ==
    LET filterstr == OrFilter(search_fields, q)
    IN  Utf8Encode(IF query_filter # << >>
                   THEN AndFilter(query_filter, filterstr)
                   ELSE filterstr)

-----------------------------------------------------------------------------
(* format_columns and format_entry.                                        *)
(* An entry is [dn, data]; data is a function from attribute names to      *)
(* lists of values, each value a list of bytes.  A generator's result is   *)
(* what it yielded together with the exception that ended it.              *)

Last(list) == list[Len(list)]

\* a name column that takes the first value of the attribute
NameColumnFirst(data) ==
    IF "cn" \notin DOMAIN data
    THEN [raised |-> "KeyError", value |-> << >>]
    ELSE LET vals == IF "displayName" \in DOMAIN data
                     THEN data["displayName"] ELSE data["cn"]
         IN  IF vals = << >>
             THEN [raised |-> "IndexError", value |-> << >>]
             ELSE [raised |-> "None", value |-> Utf8Decode(vals[1])]

\* data.get('displayName', data['cn'])[-1]: the argument data['cn'] is
\* evaluated before get is called
NameColumn(data) ==
    IF "cn" \notin DOMAIN data
    THEN [raised |-> "KeyError", value |-> << >>]
    ELSE LET vals == IF "displayName" \in DOMAIN data
                     THEN data["displayName"] ELSE data["cn"]
         IN  IF vals = << >>
             THEN [raised |-> "IndexError", value |-> << >>]
             ELSE [raised |-> "None", value |-> Utf8Decode(Last(vals))]

\* format_columns(address, data), with CONFIG's optional_column
format_columns(address, data, optional_column) ==
    LET first == << Utf8Decode(address) >>
        name  == NameColumn(data)
    IN  IF name.raised # "None"
        THEN [cols |-> first, raised |-> name.raised]
        ELSE IF optional_column \in DOMAIN data
        THEN IF data[optional_column] = << >>
             THEN [cols |-> first \o << name.value >>, raised |-> "IndexError"]
             ELSE [cols |-> first \o << name.value,
                                        Utf8Decode(Last(data[optional_column])) >>,
                   raised |-> "None"]
        ELSE [cols |-> first \o << name.value >>, raised |-> "None"]

RECURSIVE FormatMails(_, _, _, _)
\* the loop of format_entry over data['mail']: u'\t'.join(format_columns(m, data))
FormatMails(mails, data, optional_column, rows) ==
    IF mails = << >> THEN [rows |-> rows, raised |-> "None"]
    ELSE LET c == format_columns(Head(mails), data, optional_column)
         IN  IF c.raised # "None"
             THEN [rows |-> rows, raised |-> c.raised]
             ELSE FormatMails(Tail(mails), data, optional_column,
                              Append(rows, Join(<< "\t" >>, c.cols)))

\* format_entry(entry)
format_entry(entry, optional_column) ==
    IF "mail" \in DOMAIN entry.data
    THEN FormatMails(entry.data["mail"], entry.data, optional_column, << >>)
    ELSE [rows |-> << >>, raised |-> "None"]

-----------------------------------------------------------------------------
(* The configuration.  CONFIG is a record of the options the model reads;   *)
(* search_fields and filter are texts, the other options are atoms.         *)

Txt_cn == << "c", "n" >>
Txt_cn_mail == << "c", "n", " ", "m", "a", "i", "l" >>
Txt_person == << "(", "o", "c", "=", "p", ")" >>

\* the settings of the script's CONFIG object (lines 49-73) in the base run
BaseConfig ==
    [ server |-> "ldap1", basedn |-> "ou=people", filter |-> << >>,
      search_fields |-> Txt_cn_mail, optional_column |-> "",
      enable |-> TRUE, path |-> "~/.mutt-ldap.cache" ]

\* configurations that differ from BaseConfig in exactly one option
ConfigVariants ==
    { [BaseConfig EXCEPT !.server = "ldap2"],
      [BaseConfig EXCEPT !.basedn = "ou=staff"],
      [BaseConfig EXCEPT !.search_fields = Txt_cn],
      [BaseConfig EXCEPT !.filter = Txt_person],
      [BaseConfig EXCEPT !.optional_column = "title"],
      [BaseConfig EXCEPT !.enable = FALSE] }

\* the configurations a run of the script is started with
Configs ==
    { BaseConfig,
      [BaseConfig EXCEPT !.search_fields = Txt_cn],
      [BaseConfig EXCEPT !.enable = FALSE] }

\* the command lines (sys.argv[1:]) a run is started with
Argvs == { << >>, << << "a" >> >>, << << "a" >>, << "b" >> >> }

\* a configuration that ignores one option when it is serialized
ConfigStringNoFields(cfg) ==
    << cfg.server, cfg.basedn, cfg.filter, << >>, cfg.optional_column,
       cfg.enable, cfg.path >>

\* pickle.dumps(self.config): the serialization holds every option's value
ConfigString(cfg) ==
    << cfg.server, cfg.basedn, cfg.filter, cfg.search_fields,
       cfg.optional_column, cfg.enable, cfg.path >>

\* hashlib.sha1(config_string).hexdigest(): a digest is modelled as a value
\* that determines its preimage (SHA-1 taken to be free of collisions)
Sha1Hex(config_string) == << "sha1", config_string >>

\* CachedLDAPConnection._config_id
ConfigId(cfg) == Sha1Hex(ConfigString(cfg))

\* CachedLDAPConnection._cache_key
CacheKey(cfg, q) == << ConfigId(cfg), q >>

-----------------------------------------------------------------------------
(* A dict is a list of items [key, val] with distinct keys. *)

EmptyDict == << >>

DictKeys(d) == { d[i].key : i \in 1..Len(d) }

\* d.get(key, None): [found, val]
DictGet(d, key) ==
    IF key \in DictKeys(d)
    THEN [found |-> TRUE,
          val |-> d[CHOOSE i \in 1..Len(d) : d[i].key = key].val]
    ELSE [found |-> FALSE, val |-> << >>]

\* d[key] = val
DictSet(d, key, val) ==
    IF key \in DictKeys(d)
    THEN [ i \in 1..Len(d) |->
             IF d[i].key = key THEN [key |-> key, val |-> val] ELSE d[i] ]
    ELSE Append(d, [key |-> key, val |-> val])

-----------------------------------------------------------------------------
(* pickle.  A pickle stream is a list of opcodes [op, arg]: MARK, DICT,    *)
(* SETITEM and STOP as in protocol 0, KEY and VAL for the pickle of a key  *)
(* tuple and of an entry list, BADINT for an INT opcode whose argument is  *)
(* no number, and any other op for a byte that is no opcode.               *)

Op(name) == [op |-> name, arg |-> << >>]

RECURSIVE DumpItems(_)
\* Pickler.save_dict's items in protocol 0: key, value, SETITEM for each item
DumpItems(d) ==
    IF d = << >> THEN << >>
    ELSE << [op |-> "KEY", arg |-> d[1].key], [op |-> "VAL", arg |-> d[1].val],
            Op("SETITEM") >> \o DumpItems(Tail(d))

\* pickle.dump(self._cache, f): the stream written to the file
Dump(d) == << Op("MARK"), Op("DICT") >> \o DumpItems(d) \o << Op("STOP") >>

\* Unpickler.marker: the index of the topmost mark of the stack, 0 if none
Marker(stack) ==
    LET marks == { i \in 1..Len(stack) : stack[i].kind = "mark" }
    IN  IF marks = {} THEN 0 ELSE CHOOSE i \in marks : \A j \in marks : j <= i

RECURSIVE DictFromPairs(_, _)
\* load_dict's loop: d[items[i]] = items[i+1] for i = 0, 2, ...
DictFromPairs(items, d) ==
    IF items = << >> THEN [raised |-> "None", value |-> d]
    ELSE IF Len(items) = 1 THEN [raised |-> "IndexError", value |-> d]
    ELSE IF items[1].kind # "key" THEN [raised |-> "TypeError", value |-> d]
    ELSE DictFromPairs(SubSeq(items, 3, Len(items)),
                       DictSet(d, items[1].v, items[2].v))

RECURSIVE LoadFrom(_, _)
\* Unpickler.load: the opcodes are read one by one and run on a stack;
\* the result is [raised, value]
LoadFrom(stream, stack) ==
    IF stream = << >> THEN [raised |-> "EOFError", value |-> << >>]
    ELSE
    LET t    == Head(stream)
        rest == Tail(stream)
        n    == Len(stack)
    IN  CASE t.op = "MARK" ->
               LoadFrom(rest, Append(stack, [kind |-> "mark", v |-> << >>]))
          [] t.op = "KEY" ->
               LoadFrom(rest, Append(stack, [kind |-> "key", v |-> t.arg]))
          [] t.op = "VAL" ->
               LoadFrom(rest, Append(stack, [kind |-> "val", v |-> t.arg]))
          [] t.op = "DICT" ->
               \* load_dict: the items above the topmost mark become a dict
               LET k == Marker(stack)
                   d == DictFromPairs(SubSeq(stack, k + 1, n), EmptyDict)
               IN  IF k = 0 THEN [raised |-> "IndexError", value |-> << >>]
                   ELSE IF d.raised # "None"
                   THEN [raised |-> d.raised, value |-> << >>]
                   ELSE LoadFrom(rest, Append(SubSeq(stack, 1, k - 1),
                                              [kind |-> "dict", v |-> d.value]))
          [] t.op = "SETITEM" ->
               \* load_setitem: value = pop, key = pop, dict = stack[-1]
               IF n < 3 THEN [raised |-> "IndexError", value |-> << >>]
               ELSE IF stack[n-2].kind # "dict" \/ stack[n-1].kind # "key"
               THEN [raised |-> "TypeError", value |-> << >>]
               ELSE LoadFrom(rest,
                        Append(SubSeq(stack, 1, n - 3),
                               [kind |-> "dict",
                                v |-> DictSet(stack[n-2].v, stack[n-1].v,
                                              stack[n].v)]))
          [] t.op = "STOP" ->
               \* load_stop: value = pop
               IF n = 0 THEN [raised |-> "IndexError", value |-> << >>]
               ELSE [raised |-> "None", value |-> stack[n]]
          [] t.op = "BADINT" -> [raised |-> "ValueError", value |-> << >>]
          [] OTHER -> [raised |-> "KeyError", value |-> << >>]

\* pickle.load(open(path, 'rb')): IOError when the file cannot be opened
Load(f) ==
    IF ~f.exists THEN [raised |-> "IOError", value |-> << >>]
    ELSE LoadFrom(f.data, << >>)

\* the exceptions _load_cache handles with its two except clauses
LoadHandled == { "IOError", "ValueError", "KeyError" }

\* CachedLDAPConnection._load_cache: [raised, cache]
LoadCache(f) ==
    LET r == Load(f)
    IN  IF r.raised = "None" THEN [raised |-> "None", cache |-> r.value.v]
        ELSE IF r.raised \in LoadHandled
        THEN [raised |-> "None", cache |-> EmptyDict]
        ELSE [raised |-> r.raised, cache |-> EmptyDict]

\* a lookup that takes an empty stored list for a miss
CacheLookupFalsy(d, cfg, q) ==
    LET r == DictGet(d, CacheKey(cfg, q))
    IN  [cache_hit |-> r.found /\ r.val # << >>, entries |-> r.val]

\* CachedLDAPConnection._cache_lookup: [cache_hit, entries]
CacheLookup(d, cfg, q) ==
    LET r == DictGet(d, CacheKey(cfg, q))
    IN  [cache_hit |-> r.found, entries |-> r.val]

\* a store that keeps nothing but the new item
CacheStoreFresh(d, cfg, q, entries) ==
    DictSet(EmptyDict, CacheKey(cfg, q), entries)

\* CachedLDAPConnection._cache_store
CacheStore(d, cfg, q, entries) == DictSet(d, CacheKey(cfg, q), entries)

-----------------------------------------------------------------------------
(* The environment of a run: the invocations, the directory's entries and  *)
(* the cache files a first run may find.                                    *)

Procs == { "A", "B" }

\* entries (dn, data) the directory server returns
EntryAnn == [dn |-> "uid=ann",
             data |-> [mail |-> << << "a" >>, << "b" >> >>, cn |-> << << "A" >> >>]]
EntryBob == [dn |-> "uid=bob", data |-> [cn |-> << << "B" >> >>]]
EntryCy  == [dn |-> "uid=cy",
             data |-> [mail |-> << << "c" >> >>, displayName |-> << << "C" >> >>]]

\* the directory's content, which does not change: the entries, in the
\* order the server returns them, that match the search a configuration and
\* a query make
Directory(cfg, q) ==
    IF cfg.search_fields = Txt_cn_mail
    THEN IF Len(q) = 1 THEN << EntryBob, EntryAnn >> ELSE << EntryAnn, EntryCy >>
    ELSE IF Len(q) = 1 THEN << EntryBob >> ELSE << >>

\* the cache files found before the first run: none, an empty file, the
\* pickle of an empty dict, a truncated pickle, and garbage of three kinds
\* (a byte that is no opcode, an INT opcode without a number, a STOP on an
\* empty stack); every stream that loads without error loads as a dict
InitFiles ==
    { [exists |-> FALSE, data |-> << >>],
      [exists |-> TRUE, data |-> << >>],
      [exists |-> TRUE, data |-> Dump(EmptyDict)],
      [exists |-> TRUE, data |-> << Op("MARK"), Op("DICT") >>],
      [exists |-> TRUE, data |-> << Op("GARBAGE") >>],
      [exists |-> TRUE, data |-> << Op("BADINT") >>],
      [exists |-> TRUE, data |-> << Op("STOP") >>] }

\* exc: the exception the generator raised, "None" when it raised none
NoGen == [state |-> "none", entries |-> << >>, idx |-> 0,
          res_type |-> "None", res_data |-> << >>, exc |-> "None"]

\* matching: the entries that match the request; sent: those returned so
\* far; last: what the last call of result() did
NoServer == [state |-> "none", basedn |-> "", filter |-> << >>,
             matching |-> << >>, sent |-> << >>, empties |-> 0,
             last |-> "none"]

\* the session and the search at the moment of a read or write of the file,
\* and the other invocations that had saved the file by then
NoAt == [session |-> "none", lookup |-> "none", search |-> "none",
         after |-> {}]

\* the other invocations whose save has written the file
SavedBefore(p) == { q \in active \ { p } : trace[q].saved }

\* reads, writes: the calls of _load_cache and of _save_cache; read_at,
\* write_at: the session, lookup and generator at the last of them; load:
\* what pickle.load did ("unread" before the load); loaded: the cache as the
\* load left it; saved: the last _save_cache wrote the file; held, stored:
\* what the cache held for the key when the search looked it up; lookup:
\* what the search took it for; delivered: the entries the generator
\* yielded; invoked, pulled: self.connection when search() was called and
\* at the first pull; added: the keys stored since the load; call: the last
\* method the client of the connection called
NoTrace == [requests |-> 0, polls |-> 0, reads |-> 0, writes |-> 0,
            read_at |-> NoAt, write_at |-> NoAt,
            load |-> "unread", loaded |-> << >>,
            held |-> FALSE, stored |-> << >>,
            lookup |-> "none", delivered |-> << >>,
            completed |-> FALSE, saved |-> FALSE,
            invoked |-> "none", pulled |-> "none", added |-> {},
            call |-> "none"]

NoPrev == [valid |-> FALSE, config |-> BaseConfig, query |-> << >>,
           lookup |-> "none", completed |-> FALSE, saved |-> FALSE,
           error |-> "None", stdout |-> << >>,
           signal |-> "none", delivered |-> << >>]

NoPure == [fn |-> "none"]

\* the state of the invocations before any run
MainIdle ==
    /\ pc = [p \in Procs |-> "idle"]
    /\ run = [p \in Procs |-> 0]
    /\ config = [p \in Procs |-> BaseConfig]
    /\ query = [p \in Procs |-> << >>]
    /\ connection = [p \in Procs |-> "None"]
    /\ cache = [p \in Procs |-> EmptyDict]
    /\ gen = [p \in Procs |-> NoGen]
    /\ server = [p \in Procs |-> NoServer]
    /\ addresses = [p \in Procs |-> << >>]
    /\ stdout = [p \in Procs |-> << >>]
    /\ error = [p \in Procs |-> "None"]
    /\ trace = [p \in Procs |-> NoTrace]
    /\ prev = [p \in Procs |-> NoPrev]
    /\ origin = {}

\* one invocation at a time
Init ==
    /\ file \in InitFiles
    /\ active = { "A" }
    /\ MainIdle
    /\ pure = NoPure

-----------------------------------------------------------------------------
(* The __main__ block. *)

Digits == << "0", "1", "2", "3", "4", "5", "6", "7", "8", "9" >>

RECURSIVE DecStr(_)
\* u'{0}'.format(n) for n >= 0
DecStr(n) ==
    IF n < 10 THEN << Digits[n + 1] >>
    ELSE DecStr(n \div 10) \o << Digits[(n % 10) + 1] >>

Txt_found ==
    << " ", "a", "d", "d", "r", "e", "s", "s", "e", "s", " ",
       "f", "o", "u", "n", "d", ":" >>

\* the two print calls of lines 247-248, as the characters written
Printed(addrs) ==
    DecStr(Len(addrs)) \o Txt_found \o << "\n" >>
    \o Join(<< "\n" >>, addrs) \o << "\n" >>

\* what is remembered of a run when the next one starts
Summary(p) ==
    [valid |-> TRUE, config |-> config[p], query |-> query[p],
     lookup |-> trace[p].lookup, completed |-> trace[p].completed,
     saved |-> trace[p].saved, error |-> error[p], stdout |-> stdout[p],
     signal |-> server[p].last, delivered |-> trace[p].delivered]

\* lines 224-241: a new process reads argv and picks the connection class
Start(p) ==
    /\ p \in active
    /\ pc[p] \in { "idle", "done", "failed" }
    /\ run[p] < MaxRuns
    /\ \E cfg \in Configs, argv \in Argvs :
         /\ config' = [config EXCEPT ![p] = cfg]
         /\ query' = [query EXCEPT ![p] = Join(<< " " >>, argv)]
         /\ IF Len(argv) < 1
            THEN /\ pc' = [pc EXCEPT ![p] = "failed"]
                 /\ error' = [error EXCEPT ![p] = "SystemExit"]
            ELSE /\ pc' = [pc EXCEPT ![p] = "enter"]
                 /\ error' = [error EXCEPT ![p] = "None"]
    /\ run' = [run EXCEPT ![p] = @ + 1]
    /\ prev' = [prev EXCEPT ![p] = IF pc[p] = "idle" THEN @ ELSE Summary(p)]
    /\ connection' = [connection EXCEPT ![p] = "None"]
    /\ cache' = [cache EXCEPT ![p] = EmptyDict]
    /\ gen' = [gen EXCEPT ![p] = NoGen]
    /\ server' = [server EXCEPT ![p] = NoServer]
    /\ addresses' = [addresses EXCEPT ![p] = << >>]
    /\ stdout' = [stdout EXCEPT ![p] = << >>]
    /\ trace' = [trace EXCEPT ![p] = NoTrace]
    /\ UNCHANGED << file, active, origin, pure >>

\* how a call of connect may go: all of it succeeds, ldap.initialize raises
\* (line 104 assigns nothing), or start_tls_s or the bind raises after
\* line 104 has assigned the handle
ConnectOutcomes == { "ok", "initialize", "bind" }

\* LDAPConnection.connect: [raised, connection]; self.connection is "None"
\* or "session", an LDAPObject
Connect(conn, how) ==
    IF conn # "None" THEN [raised |-> "RuntimeError", connection |-> conn]
    ELSE IF how = "ok" THEN [raised |-> "None", connection |-> "session"]
    ELSE IF how = "initialize"
    THEN [raised |-> "LDAPError", connection |-> conn]
    ELSE [raised |-> "LDAPError", connection |-> "session"]

\* __enter__ of the with statement (line 243) and the call of search
\* (line 244), which only creates the generator
Enter(p) ==
    /\ p \in active
    /\ pc[p] = "enter"
    /\ \E how \in ConnectOutcomes :
         LET lc == IF config[p].enable THEN LoadCache(file)
                   ELSE [raised |-> "None", cache |-> cache[p]]
             c  == Connect(connection[p], how)
         IN  /\ trace' = [trace EXCEPT
                    ![p].reads = IF config[p].enable THEN @ + 1 ELSE @,
                    ![p].read_at = IF config[p].enable
                                   THEN [session |-> connection[p],
                                         lookup |-> trace[p].lookup,
                                         search |-> gen[p].state,
                                         after |-> SavedBefore(p)]
                                   ELSE @,
                    ![p].load = IF config[p].enable THEN Load(file).raised
                                ELSE @,
                    ![p].loaded = IF config[p].enable THEN lc.cache ELSE @,
                    ![p].invoked = IF lc.raised = "None" /\ c.raised = "None"
                                   THEN c.connection ELSE @]
             /\ IF lc.raised # "None"
                THEN /\ pc' = [pc EXCEPT ![p] = "failed"]
                     /\ error' = [error EXCEPT ![p] = lc.raised]
                     /\ UNCHANGED << cache, connection, gen >>
                ELSE /\ cache' = [cache EXCEPT ![p] = lc.cache]
                     /\ connection' = [connection EXCEPT ![p] = c.connection]
                     /\ IF c.raised # "None"
                        THEN /\ pc' = [pc EXCEPT ![p] = "failed"]
                             /\ error' = [error EXCEPT ![p] = c.raised]
                             /\ UNCHANGED gen
                        ELSE /\ pc' = [pc EXCEPT ![p] = "loop"]
                             /\ gen' = [gen EXCEPT ![p].state = "created"]
                             /\ UNCHANGED error
    /\ UNCHANGED << file, active, run, config, query, server, addresses,
                    stdout, prev, origin, pure >>

\* the body of the for loop of lines 245-246 on the entry the generator
\* yielded: addresses.extend(format_entry(entry)); `g` is the generator's
\* frame at the yield
LoopBody(p, g, entry) ==
    LET r == format_entry(entry, config[p].optional_column)
    IN  IF pc[p] # "loop"
        THEN \* a client of the class took the entry from next()
             /\ gen' = [gen EXCEPT ![p] = g]
             /\ error' = [error EXCEPT ![p] = "None"]
             /\ UNCHANGED << pc, addresses >>
        ELSE
        /\ addresses' = [addresses EXCEPT ![p] = @ \o r.rows]
        /\ IF r.raised = "None"
           THEN /\ gen' = [gen EXCEPT ![p] = g]
                /\ UNCHANGED << pc, error >>
           ELSE /\ gen' = [gen EXCEPT ![p] = [g EXCEPT !.state = "abandoned"]]
                /\ pc' = [pc EXCEPT ![p] = "exit"]
                /\ error' = [error EXCEPT ![p] = r.raised]

\* the end of the for loop: the generator ended or raised `exc`
LoopEnd(p, g, exc) ==
    /\ gen' = [gen EXCEPT ![p] = [g EXCEPT !.exc = exc]]
    /\ pc' = [pc EXCEPT ![p] = IF @ = "loop" THEN "exit" ELSE @]
    /\ error' = [error EXCEPT ![p] = exc]
    /\ UNCHANGED addresses

-----------------------------------------------------------------------------
(* The generator of search(): LDAPConnection.search for the plain class,   *)
(* CachedLDAPConnection.search around it for the caching class.  A pull of *)
(* the for loop runs the generator up to its next yield; the pull is split *)
(* at the calls of the directory server.                                    *)

\* the most entries one poll returns (res_data of one result() call)
MaxPollData == 2

Min(a, b) == IF a < b THEN a ELSE b

\* a live search that keeps what it buffered when it is interrupted
KeepPartial(d, cfg, q, entries) == CacheStore(d, cfg, q, entries)

\* the cache after a live search of the caching class was interrupted (the
\* generator raised, or was abandoned at its yield): line 174 is not reached
CacheAfterInterrupt(d, cfg, q, entries) == d

\* a buffer that misses the entry (the append of line 172 left out)
BufferDrop(entries, entry) == entries

\* entries.append(entry) of line 172
BufferAppend(entries, entry) == Append(entries, entry)

\* a replay that stops one entry early
ReplayEndEarly(g) == g.idx + 1 >= Len(g.entries)

\* the for loop of line 167 is exhausted
ReplayEnd(g) == g.idx >= Len(g.entries)

\* lines 124-139: the check of the session and the search request; `ok` is
\* whether connection.search returns a message id
SearchRequest(conn, ok) ==
    IF conn = "None" THEN "RuntimeError"
    ELSE IF ok THEN "None" ELSE "LDAPError"

\* what one call of connection.result(msg_id, all=False, timeout=0) may do:
\* return nothing yet, return the next entries, return the final result
\* once every matching entry was returned, raise ADMINLIMIT_EXCEEDED before
\* that, or raise another error
PollResults(srv) ==
    LET left == Len(srv.matching) - Len(srv.sent)
    IN  { [kind |-> "error", data |-> << >>] }
        \cup { [kind |-> "nodata", data |-> << >>] : x \in
                 IF srv.empties < MaxEmptyPolls THEN { 0 } ELSE {} }
        \cup { [kind |-> "result", data |-> << >>] : x \in
                 IF left = 0 THEN { 0 } ELSE {} }
        \cup { [kind |-> "adminlimit", data |-> << >>] : x \in
                 IF left > 0 THEN { 0 } ELSE {} }
        \cup { [kind |-> "entry",
                 data |-> SubSeq(srv.matching, Len(srv.sent) + 1,
                                 Len(srv.sent) + n)] :
                 n \in 1..Min(MaxPollData, left) }

\* a poll whose ADMINLIMIT_EXCEEDED is not caught
AdminLimitRaises(kind) == kind \in { "error", "adminlimit" }

\* a poll whose errors are all taken for the end of the results
ErrorEndsQuietly(kind) == FALSE

\* lines 142-147: whether the exception of a call of result() leaves the
\* generator; ADMINLIMIT_EXCEEDED is caught and breaks the while loop
PollRaises(kind) == kind = "error"

\* a while loop that polls again though entries of the last poll are left
PollsAhead(g) == TRUE

\* lines 148-151: the for loop over res_data has yielded all of it, so that
\* the while loop takes its next turn
ForExhausted(g) == g.res_data = << >>

\* an empty poll that is taken for the final result
EmptyPollEnds(g) == [g EXCEPT !.res_type = "RES_SEARCH_RESULT"]

\* lines 143-148: result() had nothing ready and returned (None, None), so
\* that res_type is None and no entry is yielded
EmptyPoll(g) == [g EXCEPT !.res_type = "None"]

\* whether the loop body raises on this entry
BodyRaises(p, entry) ==
    /\ pc[p] = "loop"
    /\ format_entry(entry, config[p].optional_column).raised # "None"

\* p can pull: it is in the for loop of line 245, or it is a client of the
\* class, which pulls when it likes
Pulling(p) == pc[p] \in { "loop", "new", "api" }

\* the first pull: the cache lookup and, on a miss, the search request
FirstPull(p) ==
    /\ p \in active
    /\ Pulling(p)
    /\ gen[p].state = "created"
    /\ LET cached == config[p].enable
           lk     == CacheLookup(cache[p], config[p], query[p])
           at     == DictGet(cache[p], CacheKey(config[p], query[p]))
       IN  IF cached /\ pc[p] = "new"
           THEN \* line 193 on an object that has no _cache attribute yet
                /\ LoopEnd(p, [gen[p] EXCEPT !.state = "raised"],
                           "AttributeError")
                /\ trace' = [trace EXCEPT ![p].pulled = connection[p]]
                /\ UNCHANGED << server, cache >>
           ELSE IF cached /\ lk.cache_hit
           THEN /\ trace' = [trace EXCEPT ![p].lookup = "hit",
                                          ![p].pulled = connection[p],
                                          ![p].held = at.found,
                                          ![p].stored = at.val,
                                          ![p].delivered =
                                              IF lk.entries = << >> THEN @
                                              ELSE Append(@, lk.entries[1])]
                /\ IF lk.entries = << >>
                   THEN LoopEnd(p, [gen[p] EXCEPT !.state = "finished"], "None")
                   ELSE LoopBody(p, [gen[p] EXCEPT !.state = "replay",
                                                   !.entries = lk.entries,
                                                   !.idx = 1],
                                 lk.entries[1])
                /\ UNCHANGED << server, cache >>
           ELSE \E ok \in BOOLEAN :
                LET raised == SearchRequest(connection[p], ok)
                IN  /\ trace' = [trace EXCEPT
                           ![p].lookup = IF cached THEN "miss" ELSE @,
                           ![p].pulled = connection[p],
                           ![p].held = cached /\ at.found,
                           ![p].stored = IF cached THEN at.val ELSE @,
                           ![p].requests = IF raised = "RuntimeError"
                                           THEN @ ELSE @ + 1]
                    /\ IF raised = "None"
                       THEN /\ gen' = [gen EXCEPT ![p].state = "live"]
                            /\ server' = [server EXCEPT ![p] =
                                 [state |-> "open",
                                  basedn |-> config[p].basedn,
                                  filter |-> FilterStr(config[p].search_fields,
                                                       config[p].filter,
                                                       query[p]),
                                  matching |-> Directory(config[p], query[p]),
                                  sent |-> << >>, empties |-> 0,
                                  last |-> "none"]]
                            /\ UNCHANGED << pc, error, addresses, cache >>
                       ELSE /\ LoopEnd(p, [gen[p] EXCEPT !.state = "raised"],
                                       raised)
                            /\ cache' = [cache EXCEPT ![p] =
                                 IF cached
                                 THEN CacheAfterInterrupt(@, config[p],
                                                          query[p], << >>)
                                 ELSE @]
                            /\ UNCHANGED server
    /\ UNCHANGED << file, active, run, config, query, connection, stdout,
                    prev, origin, pure >>

\* a later pull on a cache hit: lines 167-168
ReplayNext(p) ==
    /\ p \in active
    /\ Pulling(p)
    /\ gen[p].state = "replay"
    /\ IF ReplayEnd(gen[p])
       THEN /\ LoopEnd(p, [gen[p] EXCEPT !.state = "finished"], "None")
            /\ UNCHANGED trace
       ELSE LET e == gen[p].entries[gen[p].idx + 1]
            IN  /\ LoopBody(p, [gen[p] EXCEPT !.idx = @ + 1], e)
                /\ trace' = [trace EXCEPT ![p].delivered = Append(@, e)]
    /\ UNCHANGED << file, active, run, config, query, connection, cache,
                    server, stdout, prev, origin, pure >>

\* one turn of the while loop of lines 141-151 and, around it, of the for
\* loop of lines 171-174
Poll(p) ==
    /\ p \in active
    /\ Pulling(p)
    /\ gen[p].state = "live"
    /\ ForExhausted(gen[p])
    /\ gen[p].res_type # "RES_SEARCH_RESULT"
    /\ IF connection[p] = "None"
       THEN \* line 143 after an unbind: None has no attribute result
            /\ LoopEnd(p, [gen[p] EXCEPT !.state = "raised"], "AttributeError")
            /\ cache' = [cache EXCEPT ![p] =
                 IF config[p].enable
                 THEN CacheAfterInterrupt(@, config[p], query[p],
                                          gen[p].entries)
                 ELSE @]
            /\ UNCHANGED << server, trace, origin >>
       ELSE
       \E r \in PollResults(server[p]) :
         LET cached == config[p].enable
         IN  CASE r.kind = "nodata" ->
                    /\ gen' = [gen EXCEPT ![p] = EmptyPoll(gen[p])]
                    /\ server' = [server EXCEPT ![p].empties = @ + 1,
                                                 ![p].last = r.kind]
                    /\ trace' = [trace EXCEPT ![p].polls = @ + 1]
                    /\ UNCHANGED << pc, error, addresses, cache, origin >>
               [] r.kind = "entry" ->
                    LET e   == r.data[1]
                        buf == IF cached THEN BufferAppend(gen[p].entries, e)
                               ELSE gen[p].entries
                    IN  /\ LoopBody(p, [gen[p] EXCEPT
                                          !.res_type = "RES_SEARCH_ENTRY",
                                          !.res_data = Tail(r.data),
                                          !.entries = buf], e)
                        /\ server' = [server EXCEPT ![p].sent = @ \o r.data,
                                                     ![p].last = r.kind]
                        /\ trace' = [trace EXCEPT ![p].polls = @ + 1,
                                                  ![p].delivered = Append(@, e)]
                        /\ cache' = [cache EXCEPT ![p] =
                             IF cached /\ BodyRaises(p, e)
                             THEN CacheAfterInterrupt(@, config[p], query[p], buf)
                             ELSE @]
                        /\ UNCHANGED origin
               [] r.kind \in { "result", "adminlimit", "error" }
                    /\ ~PollRaises(r.kind) ->
                    /\ LoopEnd(p, [gen[p] EXCEPT
                                     !.state = "finished",
                                     !.res_type = IF r.kind = "result"
                                                  THEN "RES_SEARCH_RESULT"
                                                  ELSE @], "None")
                    /\ server' = [server EXCEPT ![p].state = "closed",
                                                 ![p].last = r.kind]
                    /\ trace' = [trace EXCEPT
                           ![p].polls = @ + 1,
                           ![p].completed = TRUE,
                           ![p].added = IF cached
                                        THEN @ \cup { CacheKey(config[p],
                                                               query[p]) }
                                        ELSE @]
                    /\ cache' = [cache EXCEPT ![p] =
                         IF cached
                         THEN CacheStore(@, config[p], query[p], gen[p].entries)
                         ELSE @]
                    /\ origin' = IF cached
                                 THEN origin \cup
                                      { [key |-> CacheKey(config[p], query[p]),
                                         config |-> config[p],
                                         entries |-> trace[p].delivered,
                                         by |-> p] }
                                 ELSE origin
               [] PollRaises(r.kind) ->
                    /\ LoopEnd(p, [gen[p] EXCEPT !.state = "raised"], "LDAPError")
                    /\ server' = [server EXCEPT ![p].state = "closed",
                                                 ![p].last = r.kind]
                    /\ trace' = [trace EXCEPT ![p].polls = @ + 1]
                    /\ cache' = [cache EXCEPT ![p] =
                         IF cached
                         THEN CacheAfterInterrupt(@, config[p], query[p],
                                                  gen[p].entries)
                         ELSE @]
                    /\ UNCHANGED origin
    /\ UNCHANGED << file, active, run, config, query, connection, stdout,
                    prev, pure >>

\* a pull that finds entries of the last poll left: lines 150-151, 171-173
YieldNext(p) ==
    /\ p \in active
    /\ Pulling(p)
    /\ gen[p].state = "live"
    /\ gen[p].res_data # << >>
    /\ LET cached == config[p].enable
           e      == Head(gen[p].res_data)
           buf    == IF cached THEN BufferAppend(gen[p].entries, e)
                     ELSE gen[p].entries
       IN  /\ LoopBody(p, [gen[p] EXCEPT !.res_data = Tail(@),
                                         !.entries = buf], e)
           /\ trace' = [trace EXCEPT ![p].delivered = Append(@, e)]
           /\ cache' = [cache EXCEPT ![p] =
                IF cached /\ BodyRaises(p, e)
                THEN CacheAfterInterrupt(@, config[p], query[p], buf)
                ELSE @]
    /\ UNCHANGED << file, active, run, config, query, connection, server,
                    stdout, prev, origin, pure >>

-----------------------------------------------------------------------------
(* Leaving the with statement. *)

\* a save that adds the cache's items to those the file holds
SaveCacheMerged(f, d, ok) ==
    LET old == IF Load(f).raised = "None" THEN Load(f).value.v ELSE EmptyDict
        new == [ i \in 1..(Len(old) + Len(d)) |->
                   IF i <= Len(old) THEN old[i] ELSE d[i - Len(old)] ]
        RECURSIVE Merge(_, _)
        Merge(items, acc) ==
            IF items = << >> THEN acc
            ELSE Merge(Tail(items), DictSet(acc, items[1].key, items[1].val))
    IN  IF ok THEN [raised |-> "None",
                    file |-> [exists |-> TRUE, data |-> Dump(Merge(new, EmptyDict))]]
        ELSE [raised |-> "IOError", file |-> f]

\* CachedLDAPConnection._save_cache; `ok` is whether the file can be opened
\* for writing: [raised, file]
SaveCache(f, d, ok) ==
    IF ok THEN [raised |-> "None", file |-> [exists |-> TRUE, data |-> Dump(d)]]
    ELSE [raised |-> "IOError", file |-> f]

\* an unbind that leaves the session handle in place
UnbindKeepsSession(conn) ==
    IF conn = "None" THEN [raised |-> "RuntimeError", connection |-> conn]
    ELSE [raised |-> "None", connection |-> conn]

\* LDAPConnection.unbind: [raised, connection]
Unbind(conn) ==
    IF conn = "None" THEN [raised |-> "RuntimeError", connection |-> conn]
    ELSE [raised |-> "None", connection |-> "None"]

\* __exit__: unbind, which for the caching class goes on to _save_cache when
\* the unbind of the plain class did not raise; then, when neither the body
\* of the with statement nor __exit__ raised, the two prints
Exit(p) ==
    /\ p \in active
    /\ pc[p] = "exit"
    /\ \E ok \in IF config[p].enable THEN BOOLEAN ELSE { TRUE } :
         LET ub   == Unbind(connection[p])
             save == config[p].enable /\ ub.raised = "None"
             sv   == IF save THEN SaveCache(file, cache[p], ok)
                     ELSE [raised |-> "None", file |-> file]
             exc  == IF ub.raised # "None" THEN ub.raised
                     ELSE IF sv.raised # "None" THEN sv.raised
                     ELSE error[p]
         IN  /\ connection' = [connection EXCEPT ![p] = ub.connection]
             /\ file' = sv.file
             /\ trace' = [trace EXCEPT
                    ![p].writes = IF save THEN @ + 1 ELSE @,
                    ![p].write_at = IF save
                                    THEN [session |-> ub.connection,
                                          lookup |-> trace[p].lookup,
                                          search |-> gen[p].state,
                                          after |-> SavedBefore(p)]
                                    ELSE @,
                    ![p].saved = save /\ sv.raised = "None"]
             /\ error' = [error EXCEPT ![p] = exc]
             /\ IF exc = "None"
                THEN /\ stdout' = [stdout EXCEPT ![p] = Printed(addresses[p])]
                     /\ pc' = [pc EXCEPT ![p] = "done"]
                ELSE /\ pc' = [pc EXCEPT ![p] = "failed"]
                     /\ UNCHANGED stdout
    /\ UNCHANGED << active, run, config, query, cache, gen, server, addresses,
                    prev, origin, pure >>

-----------------------------------------------------------------------------

Next ==
    \E p \in Procs :
        \/ Start(p)
        \/ Enter(p)
        \/ FirstPull(p)
        \/ ReplayNext(p)
        \/ Poll(p)
        \/ YieldNext(p)
        \/ Exit(p)

Spec == Init /\ [][Next]_vars

\* the first run of an invocation
StartFirst(p) == run[p] = 0 /\ Start(p)

NextFirst ==
    \E p \in Procs :
        \/ StartFirst(p)
        \/ Enter(p)
        \/ FirstPull(p)
        \/ ReplayNext(p)
        \/ Poll(p)
        \/ YieldNext(p)
        \/ Exit(p)

Config_cn == [BaseConfig EXCEPT !.search_fields = Txt_cn]

\* the cache an earlier run with search_fields = cn and query 'a' saved
EarlierCache ==
    CacheStore(EmptyDict, Config_cn, << "a" >>, Directory(Config_cn, << "a" >>))

\* one invocation that finds no cache file or the file of an earlier run
InitLive ==
    /\ file \in { [exists |-> FALSE, data |-> << >>],
                  [exists |-> TRUE, data |-> Dump(EarlierCache)] }
    /\ active = { "A" }
    /\ MainIdle
    /\ pure = NoPure

\* one run, in which the for loop of line 245 keeps pulling: a pull that
\* can be made is made
SpecLive ==
    /\ InitLive /\ [][NextFirst]_vars
    /\ \A p \in Procs : WF_vars(Poll(p) \/ YieldNext(p))

-----------------------------------------------------------------------------
(* Two invocations of the script that run at the same time with the same   *)
(* cache path, each with the cache enabled.  The file they find is absent  *)
(* or holds the entry an earlier run stored.                                *)

InitConc ==
    /\ file \in { [exists |-> FALSE, data |-> << >>],
                  [exists |-> TRUE, data |-> Dump(EarlierCache)] }
    /\ active = Procs
    /\ MainIdle
    /\ pure = NoPure

\* the first run of an invocation that has the cache enabled
StartCached(p) == StartFirst(p) /\ config'[p].enable

NextConc ==
    \E p \in Procs :
        \/ StartCached(p)
        \/ Enter(p)
        \/ FirstPull(p)
        \/ ReplayNext(p)
        \/ Poll(p)
        \/ YieldNext(p)
        \/ Exit(p)

SpecConc == InitConc /\ [][NextConc]_vars

-----------------------------------------------------------------------------
(* The two classes under a client that calls their methods in any order:   *)
(* the constructor, then connect, unbind and search, and next() on the     *)
(* generator the last search returned.  The client holds one generator at  *)
(* a time, and does not pull a live search of an earlier session once a    *)
(* new session is established.  pc[p] is "new" for an object of the        *)
(* caching class that has no _cache attribute yet, and "api" otherwise.    *)

\* the most calls of connect, unbind and search by the client
MaxCalls == 4

\* the cache files the client's first connect may find
ApiFiles ==
    { [exists |-> FALSE, data |-> << >>],
      [exists |-> TRUE, data |-> << >>],
      [exists |-> TRUE, data |-> Dump(EarlierCache)] }

\* the queries of the client's searches
ApiQueries == { Join(<< " " >>, argv) : argv \in Argvs \ { << >> } }

InitAPI ==
    /\ file \in ApiFiles
    /\ active = { "A" }
    /\ MainIdle
    /\ pure = NoPure

\* LDAPConnection.__init__, lines 81-85
ApiNew(p) ==
    /\ p \in active
    /\ pc[p] = "idle"
    /\ \E cfg \in Configs :
         /\ config' = [config EXCEPT ![p] = cfg]
         /\ pc' = [pc EXCEPT ![p] = IF cfg.enable THEN "new" ELSE "api"]
    /\ connection' = [connection EXCEPT ![p] = "None"]
    /\ UNCHANGED << file, active, run, query, cache, gen, server, addresses,
                    stdout, error, trace, prev, origin, pure >>

\* connect(): lines 155-157 for the caching class, 94-115 for the plain one
ApiConnect(p) ==
    /\ p \in active
    /\ pc[p] \in { "new", "api" }
    /\ run[p] < MaxCalls
    /\ \E how \in ConnectOutcomes :
         LET cached == config[p].enable
             lc == IF cached THEN LoadCache(file)
                   ELSE [raised |-> "None", cache |-> cache[p]]
             c  == IF lc.raised = "None" THEN Connect(connection[p], how)
                   ELSE [raised |-> lc.raised, connection |-> connection[p]]
         IN  /\ cache' = [cache EXCEPT ![p] =
                            IF lc.raised = "None" THEN lc.cache ELSE @]
             /\ pc' = [pc EXCEPT ![p] = IF lc.raised = "None" THEN "api" ELSE @]
             /\ connection' = [connection EXCEPT ![p] = c.connection]
             /\ error' = [error EXCEPT ![p] = c.raised]
             /\ gen' = [gen EXCEPT ![p].state =
                          IF c.raised = "None" /\ @ = "live"
                          THEN "abandoned" ELSE @]
             /\ trace' = [trace EXCEPT
                    ![p].reads = IF cached THEN @ + 1 ELSE @,
                    ![p].read_at = IF cached
                                   THEN [session |-> connection[p],
                                         lookup |-> trace[p].lookup,
                                         search |-> gen[p].state,
                                         after |-> SavedBefore(p)]
                                   ELSE @,
                    ![p].load = IF cached THEN Load(file).raised ELSE @,
                    ![p].loaded = IF cached /\ lc.raised = "None"
                                  THEN lc.cache ELSE @,
                    ![p].added = IF cached /\ lc.raised = "None"
                                 THEN {} ELSE @,
                    ![p].call = "connect"]
    /\ run' = [run EXCEPT ![p] = @ + 1]
    /\ UNCHANGED << file, active, config, query, server, addresses, stdout,
                    prev, origin, pure >>

\* unbind(): lines 159-161 for the caching class, 117-121 for the plain one
ApiUnbind(p) ==
    /\ p \in active
    /\ pc[p] \in { "new", "api" }
    /\ run[p] < MaxCalls
    /\ \E ok \in IF config[p].enable THEN BOOLEAN ELSE { TRUE } :
         LET ub   == Unbind(connection[p])
             save == config[p].enable /\ ub.raised = "None"
             sv   == IF save THEN SaveCache(file, cache[p], ok)
                     ELSE [raised |-> "None", file |-> file]
         IN  /\ connection' = [connection EXCEPT ![p] = ub.connection]
             /\ file' = sv.file
             /\ error' = [error EXCEPT ![p] =
                            IF ub.raised # "None" THEN ub.raised ELSE sv.raised]
             /\ trace' = [trace EXCEPT
                    ![p].writes = IF save THEN @ + 1 ELSE @,
                    ![p].write_at = IF save
                                    THEN [session |-> ub.connection,
                                          lookup |-> trace[p].lookup,
                                          search |-> gen[p].state,
                                          after |-> SavedBefore(p)]
                                    ELSE @,
                    ![p].saved = save /\ sv.raised = "None",
                    ![p].call = "unbind"]
    /\ run' = [run EXCEPT ![p] = @ + 1]
    /\ UNCHANGED << active, pc, config, query, cache, gen, server, addresses,
                    stdout, prev, origin, pure >>

\* search(query): the call only makes the generator; a generator the client
\* held before is dropped where it stands
ApiSearch(p) ==
    /\ p \in active
    /\ pc[p] \in { "new", "api" }
    /\ run[p] < MaxCalls
    /\ \E q \in ApiQueries :
         query' = [query EXCEPT ![p] = q]
    /\ gen' = [gen EXCEPT ![p] = [NoGen EXCEPT !.state = "created"]]
    /\ server' = [server EXCEPT ![p] = NoServer]
    /\ error' = [error EXCEPT ![p] = "None"]
    /\ cache' = [cache EXCEPT ![p] =
                   IF config[p].enable /\ gen[p].state = "live"
                   THEN CacheAfterInterrupt(@, config[p], query[p],
                                            gen[p].entries)
                   ELSE @]
    /\ trace' = [trace EXCEPT
           ![p].requests = 0, ![p].polls = 0,
           ![p].held = FALSE, ![p].stored = << >>,
           ![p].lookup = "none", ![p].delivered = << >>,
           ![p].completed = FALSE,
           ![p].invoked = connection[p], ![p].pulled = "none",
           ![p].call = "search"]
    /\ run' = [run EXCEPT ![p] = @ + 1]
    /\ UNCHANGED << file, active, pc, config, connection, addresses, stdout,
                    prev, origin, pure >>

NextAPI ==
    \E p \in Procs :
        \/ ApiNew(p)
        \/ ApiConnect(p)
        \/ ApiUnbind(p)
        \/ ApiSearch(p)
        \/ FirstPull(p)
        \/ ReplayNext(p)
        \/ Poll(p)
        \/ YieldNext(p)

SpecAPI == InitAPI /\ [][NextAPI]_vars

-----------------------------------------------------------------------------
(* The pure functions on their own: the filter string and format_entry,    *)
(* each applied once to an input drawn from a bounded set.                  *)

Txt_ann == << "a", "n", "n" >>
Txt_cn_mail_uid ==
    << "c", "n", " ", "m", "a", "i", "l", " ", "u", "i", "d" >>
Txt_objectClass_person ==
    << "(", "o", "b", "j", "e", "c", "t", "C", "l", "a", "s", "s", "=",
       "p", "e", "r", "s", "o", "n", ")" >>

\* values of the search_fields option
FilterFieldSettings ==
    { << >>, Txt_cn, Txt_cn_mail, Txt_cn_mail_uid,
      << "c", "n", " ", " ", "s", "n" >>, << " ", "u", "i", "d", " " >> }

\* values of the filter option
FilterSettings == { << >>, Txt_objectClass_person, << "o", "c", "=", "p" >> }

\* query strings
FilterQueries ==
    { << >>, Txt_ann, << "a" >>, << "a", " ", "b" >>, << EAcute >> }

InitFilter ==
    /\ file = [exists |-> FALSE, data |-> << >>]
    /\ active = {}
    /\ MainIdle
    /\ pure \in [ fn : { "filter" }, search_fields : FilterFieldSettings,
                  query_filter : FilterSettings, query : FilterQueries,
                  done : { FALSE }, result : { << >> } ]

\* lines 126-139 of LDAPConnection.search
ApplyFilter ==
    /\ pure.fn = "filter"
    /\ ~pure.done
    /\ pure' = [pure EXCEPT !.done = TRUE,
                            !.result = FilterStr(pure.search_fields,
                                                 pure.query_filter, pure.query)]
    /\ UNCHANGED mainVars

NextFilter == ApplyFilter

SpecFilter == InitFilter /\ [][NextFilter]_vars

\* the values an attribute holds in the entries of FormatEntries
AttrValues ==
    [ mail |-> << << "a", "@", "x" >>, << "b", "@", "x" >> >>,
      displayName |-> << << "Z", "o", "xC3", "xA9" >>,
                         << "A", "n", "n", " ", "B" >> >>,
      cn |-> << << "A", "n", "n" >>, << "A", "n", "n", "i", "e" >> >>,
      title |-> << << "M", "s" >>, << "D", "r" >> >> ]

\* the entries format_entry is applied to: every attribute is absent or
\* holds one or two values
FormatEntries ==
    { [dn |-> "uid=ann", data |-> [ a \in DOMAIN n |-> SubSeq(AttrValues[a], 1, n[a]) ]] :
        n \in UNION { [ S -> { 1, 2 } ] : S \in SUBSET DOMAIN AttrValues } }

InitFormat ==
    /\ file = [exists |-> FALSE, data |-> << >>]
    /\ active = {}
    /\ MainIdle
    /\ pure \in [ fn : { "format" }, entry : FormatEntries,
                  optional_column : { "", "title" },
                  done : { FALSE }, rows : { << >> }, raised : { "None" } ]

\* list(format_entry(entry)), as far as it gets
ApplyFormat ==
    /\ pure.fn = "format"
    /\ ~pure.done
    /\ LET r == format_entry(pure.entry, pure.optional_column)
       IN  pure' = [pure EXCEPT !.done = TRUE, !.rows = r.rows,
                                !.raised = r.raised]
    /\ UNCHANGED mainVars

NextFormat == ApplyFormat

SpecFormat == InitFormat /\ [][NextFormat]_vars

-----------------------------------------------------------------------------
(* Properties. *)

Cached(p) == config[p].enable

Key(p) == CacheKey(config[p], query[p])

IsPrefix(a, b) == Len(a) <= Len(b) /\ SubSeq(b, 1, Len(a)) = a

\* the search of p's run has been started by a first pull
Searched(p) == gen[p].state \notin { "none", "created" }

\* the dict a cache file holds, when it loads
FileDict == Load(file).value.v

FileLoads == Load(file).raised = "None"

\* p's previous run, with the same configuration and query, was a miss
\* whose live search ran to its end, and it saved the cache
PrevStored(p) ==
    /\ prev[p].valid /\ prev[p].lookup = "miss"
    /\ prev[p].completed /\ prev[p].saved
    /\ prev[p].config = config[p] /\ prev[p].query = query[p]

\* p's previous run, with the same configuration and query, was a miss
\* whose live search was interrupted, and it saved the cache
PrevInterrupted(p) ==
    /\ prev[p].valid /\ prev[p].lookup = "miss"
    /\ ~prev[p].completed /\ prev[p].saved
    /\ prev[p].config = config[p] /\ prev[p].query = query[p]

\* C1: whenever the cache holds an entry for the key when the search looks
\* it up, an empty list included, the entries yielded are the stored list in
\* stored order (a prefix of it while the replay runs, all of it once the
\* generator has ended), and no search request and no poll is issued.
C1_HitReplaysStoredList ==
    \A p \in active :
        (Cached(p) /\ Searched(p) /\ trace[p].held) =>
            /\ trace[p].requests = 0
            /\ trace[p].polls = 0
            /\ server[p].state = "none"
            /\ IsPrefix(trace[p].delivered, trace[p].stored)
            /\ gen[p].state \notin { "live", "raised" }
            /\ (gen[p].state = "finished" =>
                    trace[p].delivered = trace[p].stored)

C1_Witness ==
    \E p \in active :
        /\ Cached(p) /\ trace[p].held /\ gen[p].state = "finished"
        /\ Len(trace[p].stored) = 2
        /\ trace[p].delivered = trace[p].stored

\* C2: on a cache miss every entry the server returned is forwarded to the
\* caller in the order received and appended to the buffer, and once the
\* live search has run to its end the cache maps the key to exactly the
\* list of entries forwarded to the caller.
C2_MissForwardsAndStores ==
    \A p \in active :
        (Cached(p) /\ Searched(p) /\ ~trace[p].held) =>
            /\ gen[p].entries = trace[p].delivered
            /\ trace[p].delivered \o gen[p].res_data = server[p].sent
            /\ (trace[p].completed =>
                    /\ gen[p].res_data = << >>
                    /\ DictGet(cache[p], Key(p)) =
                           [found |-> TRUE, val |-> trace[p].delivered])

C2_Witness ==
    \E p \in active :
        /\ Cached(p) /\ ~trace[p].held /\ trace[p].completed
        /\ Len(trace[p].delivered) = 2
        /\ DictGet(cache[p], Key(p)).val = trace[p].delivered

\* C3: when a live search on a miss is interrupted (a poll or the request
\* raises, or the consumer stops pulling), the key is not in the in-memory
\* cache nor in the file the run saves, and the next run with the same key
\* is a miss that queries the server again; every entry of an in-memory
\* cache and of the cache file is the full result of a search that ran to
\* its end.
C3_InterruptedSearchNotCached ==
    /\ \A p \in active :
         /\ (Cached(p) /\ ~trace[p].held
               /\ gen[p].state \in { "raised", "abandoned" }) =>
                /\ Key(p) \notin DictKeys(cache[p])
                /\ (trace[p].saved =>
                        FileLoads /\ Key(p) \notin DictKeys(FileDict))
         /\ (PrevInterrupted(p) /\ Cached(p) /\ Searched(p)) =>
                /\ trace[p].lookup = "miss"
                /\ trace[p].requests = 1
         /\ \A i \in 1..Len(cache[p]) :
                \E o \in origin :
                    o.key = cache[p][i].key /\ o.entries = cache[p][i].val
    /\ FileLoads =>
         \A i \in 1..Len(FileDict) :
             \E o \in origin :
                 o.key = FileDict[i].key /\ o.entries = FileDict[i].val

C3_Witness ==
    \E p \in active :
        /\ PrevInterrupted(p) /\ prev[p].error = "KeyError"
        /\ trace[p].lookup = "miss" /\ trace[p].requests = 1
        /\ gen[p].state = "raised" /\ trace[p].saved
        /\ Len(trace[p].delivered) = 1

\* the options that bear on the query and on the rows
Relevant(cfg) ==
    << cfg.server, cfg.basedn, cfg.search_fields, cfg.filter,
       cfg.optional_column >>

AllConfigs == Configs \cup ConfigVariants

\* C4: two configurations that differ in a query-relevant option have
\* different fingerprints; a lookup never returns an entry that was stored
\* under a configuration differing in such an option; and a run with the
\* settings of the run that stored an entry computes the same fingerprint,
\* so that it finds the entry.
C4_FingerprintSeparatesConfigs ==
    /\ \A c1, c2 \in AllConfigs :
         Relevant(c1) # Relevant(c2) => ConfigId(c1) # ConfigId(c2)
    /\ \A p \in active :
         /\ (Cached(p) /\ trace[p].lookup = "hit") =>
                \A o \in origin :
                    o.key = Key(p) => Relevant(o.config) = Relevant(config[p])
         /\ (Cached(p) /\ Searched(p) /\ PrevStored(p)) =>
                trace[p].lookup = "hit"

C4_Witness ==
    \E p \in active :
        /\ Cached(p) /\ trace[p].lookup = "miss" /\ trace[p].completed
        /\ prev[p].valid /\ prev[p].config.enable
        /\ prev[p].lookup = "miss" /\ prev[p].completed /\ prev[p].saved
        /\ prev[p].query = query[p]
        /\ Relevant(prev[p].config) # Relevant(config[p])
        /\ Len(cache[p]) = 2

\* C5: a run that misses, completes its live search and saves the cache,
\* and the next run with the same configuration and query, which loads that
\* file, print the same characters: the same count line and the same rows
\* in the same order.
C5_CachedRunPrintsTheSame ==
    \A p \in active :
        (PrevStored(p) /\ pc[p] = "done") =>
            /\ trace[p].lookup = "hit"
            /\ prev[p].stdout # << >>
            /\ stdout[p] = prev[p].stdout

C5_Witness ==
    \E p \in active :
        /\ PrevStored(p) /\ pc[p] = "done"
        /\ Len(addresses[p]) = 2
        /\ stdout[p] = prev[p].stdout

\* the load of p's run found no file or a file that does not deserialize
LoadFailed(p) == trace[p].load \notin { "unread", "None" }

\* C6: loading the cache never aborts the run: when the file is missing or
\* fails to deserialize for any reason, connect goes on with an empty cache
\* and the search that follows is a miss that queries the server.
C6_LoadNeverAborts ==
    \A p \in active :
        (Cached(p) /\ LoadFailed(p)) =>
            /\ ~(pc[p] = "failed" /\ gen[p].state = "none"
                   /\ error[p] = trace[p].load)
            /\ (pc[p] = "loop" => cache[p] = EmptyDict)
            /\ (Searched(p) =>
                    trace[p].lookup = "miss" /\ trace[p].requests = 1)

\* C7: a failure to write the cache file is not fatal: when the save fails
\* after a search that completed, the run still prints the count line and
\* all rows and ends successfully.
C7_SaveFailureNotFatal ==
    \A p \in active :
        (Cached(p) /\ gen[p].state = "finished" /\ error[p] \in { "None", "IOError" }
           /\ pc[p] \in { "done", "failed" } /\ ~trace[p].saved) =>
            /\ pc[p] = "done"
            /\ stdout[p] = Printed(addresses[p])

\* '(f=*q*)'
ExpectedTerm(field, q) ==
    << "(" >> \o field \o << "=", "*" >> \o q \o << "*", ")" >>

\* '(|' term1 ... termn ')' with nothing between the terms
ExpectedOrFilter(fields, q) ==
    << "(", "|" >>
    \o Concat([ i \in 1..Len(fields) |-> ExpectedTerm(fields[i], q) ])
    \o << ")" >>

Txt_or_cn_mail_ann ==
    << "(", "|", "(", "c", "n", "=", "*", "a", "n", "n", "*", ")",
       "(", "m", "a", "i", "l", "=", "*", "a", "n", "n", "*", ")", ")" >>

\* C8: with no static filter, for every list of search fields and every
\* non-empty query the filter sent is '(|' followed by the terms '(fi=*q*)'
\* in configured order with nothing between them, followed by ')'; for
\* 'cn mail' and 'ann' it is '(|(cn=*ann*)(mail=*ann*))'.
C8_OrFilterHasNoSeparator ==
    (pure.fn = "filter" /\ pure.done /\ pure.query_filter = << >>
       /\ pure.query # << >>) =>
        /\ pure.result =
               Utf8Encode(ExpectedOrFilter(Split(pure.search_fields), pure.query))
        /\ (pure.search_fields = Txt_cn_mail /\ pure.query = Txt_ann =>
                pure.result = Txt_or_cn_mail_ann)

\* C9: with the static filter '(objectClass=person)', search fields
\* 'cn mail' and query 'ann' the filter sent is
\* '(&(objectClass=person)(|(cn=*ann*)(mail=*ann*)))'.
C9_StaticFilterAndedOnce ==
    (pure.fn = "filter" /\ pure.done
       /\ pure.query_filter = Txt_objectClass_person
       /\ pure.search_fields = Txt_cn_mail /\ pure.query = Txt_ann) =>
        pure.result =
            << "(", "&" >> \o Txt_objectClass_person \o Txt_or_cn_mail_ann
            \o << ")" >>

\* C10: format_entry yields no row for an entry without mail; for an entry
\* with k mail values and a displayName, with or without cn, it yields k
\* rows, one per mail value in order, each the mail value, a tab and the
\* last displayName value.
C10_RowsUseDisplayName ==
    (pure.fn = "format" /\ pure.done) =>
        LET data == pure.entry.data
        IN  /\ "mail" \notin DOMAIN data =>
                 pure.rows = << >> /\ pure.raised = "None"
            /\ ("mail" \in DOMAIN data /\ "displayName" \in DOMAIN data) =>
                 /\ pure.raised = "None"
                 /\ pure.rows =
                        [ i \in 1..Len(data["mail"]) |->
                            Utf8Decode(data["mail"][i]) \o << "\t" >>
                            \o Utf8Decode(Last(data["displayName"])) ]

RECURSIVE Fields(_, _, _)
\* row.split(u'\t'): the fields of a row; `field` is the field being read
Fields(row, field, acc) ==
    IF row = << >> THEN Append(acc, field)
    ELSE IF Head(row) = "\t" THEN Fields(Tail(row), << >>, Append(acc, field))
    ELSE Fields(Tail(row), Append(field, Head(row)), acc)

\* C11: for an entry with a mail attribute, without displayName and with a
\* cn attribute of one or more values, format_entry yields one row per mail
\* value, and the name field (the second field) of every row is the last
\* value of cn; for cn = ['Ann', 'Annie'] it is 'Annie'.
C11_NameFallsBackToLastCn ==
    (pure.fn = "format" /\ pure.done) =>
        LET data == pure.entry.data
        IN  ("mail" \in DOMAIN data /\ "displayName" \notin DOMAIN data
               /\ "cn" \in DOMAIN data /\ data["cn"] # << >>) =>
                 /\ pure.raised = "None"
                 /\ Len(pure.rows) = Len(data["mail"])
                 /\ \A i \in 1..Len(pure.rows) :
                        LET f == Fields(pure.rows[i], << >>, << >>)
                        IN  /\ Len(f) >= 2
                            /\ f[1] = Utf8Decode(data["mail"][i])
                            /\ f[2] = Utf8Decode(Last(data["cn"]))
                 /\ (data["cn"] = << << "A", "n", "n" >>,
                                     << "A", "n", "n", "i", "e" >> >> =>
                        \A i \in 1..Len(pure.rows) :
                            Fields(pure.rows[i], << >>, << >>)[2] =
                                << "A", "n", "n", "i", "e" >>)

C11_Witness ==
    /\ pure.fn = "format" /\ pure.done
    /\ "displayName" \notin DOMAIN pure.entry.data
    /\ "cn" \in DOMAIN pure.entry.data /\ Len(pure.entry.data["cn"]) = 2
    /\ "mail" \in DOMAIN pure.entry.data
    /\ Len(pure.rows) = 2
    /\ Fields(pure.rows[2], << >>, << >>)[2] = << "A", "n", "n", "i", "e" >>


\* C13: when a poll signals ADMINLIMIT_EXCEEDED, the generator ends without
\* raising, every entry yielded before the signal is delivered, and the
\* caching connection treats the search as complete: the truncated list is
\* stored under the key, saved with the cache, and the next run with the
\* same key is a hit that replays it and prints as a run prints whose
\* search ran to the final result.
C13_AdminLimitIsCompletion ==
    \A p \in active :
        /\ server[p].last = "adminlimit" =>
               /\ gen[p].state = "finished"
               /\ pc[p] = "exit" => error[p] = "None"
               /\ error[p] \in { "None", "IOError" }
               /\ trace[p].delivered = server[p].sent
               /\ Len(server[p].sent) < Len(server[p].matching)
               /\ trace[p].completed
               /\ Cached(p) =>
                      /\ DictGet(cache[p], Key(p)) =
                             [found |-> TRUE, val |-> trace[p].delivered]
                      /\ trace[p].saved =>
                             /\ FileLoads
                             /\ DictGet(FileDict, Key(p)) =
                                    [found |-> TRUE, val |-> trace[p].delivered]
                      /\ pc[p] = "done" => stdout[p] = Printed(addresses[p])
        /\ (PrevStored(p) /\ prev[p].signal = "adminlimit"
              /\ Cached(p) /\ Searched(p)) =>
               /\ trace[p].lookup = "hit"
               /\ trace[p].stored = prev[p].delivered
               /\ trace[p].requests = 0 /\ trace[p].polls = 0
               /\ gen[p].state = "finished" =>
                      /\ trace[p].delivered = prev[p].delivered
                      /\ error[p] \in { "None", "IOError" }
               /\ pc[p] = "done" => stdout[p] = prev[p].stdout

C13_Witness ==
    \E p \in active :
        /\ PrevStored(p) /\ prev[p].signal = "adminlimit"
        /\ Len(prev[p].delivered) = 1
        /\ Len(Directory(config[p], query[p])) = 2
        /\ pc[p] = "done" /\ trace[p].lookup = "hit"
        /\ trace[p].delivered = prev[p].delivered
        /\ Len(addresses[p]) = 2


\* C14: when a poll raises an error other than ADMINLIMIT_EXCEEDED, the
\* generator raises it to the caller, no further poll and no second search
\* request is issued (a search issues at most one request), and the run
\* ends in failure without printing the count line or a row.
C14_PollErrorEndsRun ==
    /\ [](\A p \in active :
            /\ trace[p].requests <= 1
            /\ server[p].last = "error" =>
                   /\ gen[p].state = "raised"
                   /\ trace[p].requests = 1
                   /\ pc[p] \in { "exit", "failed" }
                   /\ pc[p] = "exit" => error[p] = "LDAPError"
                   /\ error[p] \in { "LDAPError", "IOError" }
                   /\ stdout[p] = << >>)
    /\ [][\A p \in active :
            server[p].last = "error" =>
                /\ trace'[p].polls <= trace[p].polls
                /\ trace'[p].requests <= trace[p].requests]_vars

C14_Witness ==
    \E p \in active :
        /\ server[p].last = "error" /\ gen[p].state = "raised"
        /\ pc[p] = "failed" /\ error[p] = "LDAPError"
        /\ Len(trace[p].delivered) = 2 /\ Len(addresses[p]) = 2
        /\ trace[p].polls = 3
        /\ stdout[p] = << >>


\* the caching connection of p's run was entered: __enter__ returned
Entered(p) == Cached(p) /\ gen[p].state # "none"

\* C16: in every run that entered the caching connection, _load_cache is
\* called exactly once, while there is no session and before any lookup;
\* _save_cache is not called before the end of the with statement and is
\* called exactly once there, after the session was unbound, whether the
\* search completed, was abandoned or raised, and when its open succeeds
\* the file holds the cache; the file never changes while a search is in
\* progress.
C16_LoadOnceSaveOnce ==
    /\ [](\A p \in active :
            Entered(p) =>
                /\ trace[p].reads = 1
                /\ trace[p].read_at =
                       [session |-> "None", lookup |-> "none",
                        search |-> "none", after |-> {}]
                /\ pc[p] \in { "loop", "exit" } =>
                       /\ trace[p].writes = 0
                       /\ connection[p] = "session"
                /\ pc[p] \in { "done", "failed" } =>
                       /\ trace[p].writes = 1
                       /\ trace[p].write_at.session = "None"
                       /\ trace[p].write_at.search \in
                              { "finished", "raised", "abandoned" }
                       /\ connection[p] = "None"
                       /\ trace[p].saved =>
                              file = [exists |-> TRUE, data |-> Dump(cache[p])])
    /\ [][file' # file =>
            \E p \in active :
                /\ pc[p] = "exit"
                /\ gen[p].state \in { "finished", "raised", "abandoned" }
                /\ trace'[p].writes = trace[p].writes + 1
                /\ connection'[p] = "None"]_vars

C16_Witness ==
    \E p \in active :
        /\ Entered(p) /\ pc[p] = "failed"
        /\ gen[p].state = "abandoned" /\ error[p] = "KeyError"
        /\ trace[p].reads = 1 /\ trace[p].writes = 1 /\ trace[p].saved
        /\ prev[p].valid /\ prev[p].saved /\ prev[p].completed
        /\ file = [exists |-> TRUE, data |-> Dump(cache[p])]
        /\ Len(cache[p]) = 1


\* C17: results are streamed pull by pull: before the first pull no search
\* request and no poll is issued; a poll is issued only when every entry
\* the earlier polls returned has been delivered; and on a miss the cache
\* holds the key only once every entry has been delivered, so that the
\* consumer has entries while the search is still running.
C17_StreamedPullByPull ==
    /\ [](\A p \in active :
            /\ gen[p].state \in { "none", "created" } =>
                   /\ trace[p].requests = 0 /\ trace[p].polls = 0
                   /\ server[p].state = "none"
                   /\ trace[p].delivered = << >>
            /\ (Cached(p) /\ Searched(p) /\ ~trace[p].held
                  /\ Key(p) \in DictKeys(cache[p])) =>
                   /\ gen[p].state = "finished"
                   /\ gen[p].res_data = << >>
                   /\ trace[p].delivered = server[p].sent
            /\ gen[p].state = "live" =>
                   trace[p].delivered \o gen[p].res_data = server[p].sent)
    /\ [][\A p \in active :
            trace'[p].polls = trace[p].polls + 1 =>
                /\ gen[p].res_data = << >>
                /\ trace[p].delivered = server[p].sent
                /\ trace[p].requests = 1]_vars

C17_Witness ==
    \E p \in active :
        /\ Cached(p) /\ gen[p].state = "live" /\ ~trace[p].completed
        /\ trace[p].polls = 1
        /\ Len(server[p].sent) = 2 /\ Len(trace[p].delivered) = 1
        /\ Len(gen[p].res_data) = 1
        /\ Len(addresses[p]) = 2
        /\ Key(p) \notin DictKeys(cache[p])


\* the signals that end the poll loop
EndSignals == { "result", "adminlimit", "error" }

\* C18: the poll loop of a live search ends only on a poll that reports the
\* final result, on ADMINLIMIT_EXCEEDED or on an error; after a poll that
\* returned no data and no such signal the generator is still in its loop
\* and its next step is another poll; and when the consumer keeps pulling,
\* a live search ends (or the consumer's loop body raises and abandons it),
\* having issued exactly one search request.
C18_PollLoopEnds ==
    /\ [](\A p \in active :
            /\ (trace[p].polls >= 1 /\ gen[p].state \in { "finished", "raised" }) =>
                   /\ server[p].last \in EndSignals
                   /\ trace[p].requests = 1
            /\ (trace[p].polls >= 1 /\ server[p].last \notin EndSignals) =>
                   gen[p].state \in { "live", "abandoned" }
            /\ server[p].last = "nodata" =>
                   /\ gen[p].state = "live" /\ pc[p] = "loop"
                   /\ ENABLED Poll(p))
    /\ [][\A p \in active :
            (server[p].last = "nodata" /\ trace'[p] # trace[p]) =>
                trace'[p].polls = trace[p].polls + 1]_vars
    /\ \A p \in Procs :
           (gen[p].state = "live" /\ p \in active) ~>
               (/\ gen[p].state \in { "finished", "raised", "abandoned" }
                /\ trace[p].requests = 1)

C18_Witness ==
    \E p \in active :
        /\ gen[p].state = "finished" /\ server[p].last = "result"
        /\ server[p].empties = 1 /\ trace[p].polls = 4
        /\ trace[p].requests = 1
        /\ Len(trace[p].delivered) = 2


\* p's run was a miss whose live search ran to its end, and the run is over
LiveSearchDone(p) ==
    /\ Cached(p) /\ pc[p] \in { "done", "failed" }
    /\ trace[p].lookup = "miss" /\ trace[p].completed

\* a and b both loaded the file before either saved it, and a saved it
\* before b did
LoadLoadSaveSave(a, b) ==
    /\ trace[a].read_at.after = {} /\ trace[b].read_at.after = {}
    /\ trace[a].saved /\ trace[a].write_at.after = {}
    /\ trace[b].saved /\ trace[b].write_at.after = { a }

\* C15: when two invocations run at the same time with the same cache path,
\* both load the file before either saves, each completes a live search for
\* a different query and a saves before b, the file after both runs is b's
\* in-memory map, which is the snapshot b loaded plus b's new entry, and
\* does not hold a's new entry; and no lookup of an invocation that loaded
\* before the other saved finds an entry the other created.
C15_LastWriterWins ==
    \A a, b \in active :
        a # b =>
            /\ (LiveSearchDone(a) /\ LiveSearchDone(b) /\ Key(a) # Key(b)
                  /\ LoadLoadSaveSave(a, b)) =>
                   /\ FileLoads
                   /\ FileDict = cache[b]
                   /\ cache[b] = DictSet(trace[b].loaded, Key(b),
                                         trace[b].delivered)
                   /\ Key(b) \notin DictKeys(trace[b].loaded)
                   /\ Key(a) \in DictKeys(cache[a])
                   /\ Key(a) \notin DictKeys(FileDict)
            /\ (Cached(a) /\ Searched(a) /\ trace[a].read_at.after = {}) =>
                   /\ trace[a].held = (Key(a) \in DictKeys(trace[a].loaded))
                   /\ trace[a].held =>
                          /\ trace[a].stored =
                                 DictGet(trace[a].loaded, Key(a)).val
                          /\ \A o \in origin : o.by = b => o.key # Key(a)
                   /\ \A o \in origin :
                          (o.by = b /\ o.key # Key(a)) =>
                              o.key \notin DictKeys(cache[a])

C15_Witness ==
    \E a, b \in active :
        /\ a # b
        /\ LiveSearchDone(a) /\ LiveSearchDone(b) /\ Key(a) # Key(b)
        /\ LoadLoadSaveSave(a, b)
        /\ pc[a] = "done" /\ pc[b] = "done"
        /\ Len(trace[b].loaded) = 1 /\ Len(FileDict) = 2
        /\ FileDict = cache[b]
        /\ Len(trace[a].delivered) = 2 /\ Len(trace[b].delivered) = 1


\* C12: a search invoked on a connection without a session (self.connection
\* is None when search() is called and when the generator is first pulled)
\* raises the RuntimeError of line 125 and yields no entry, for the plain
\* and for the caching class, whatever the cache holds.
C12_SearchNeedsSession ==
    \A p \in active :
        (Searched(p) /\ trace[p].invoked = "None" /\ trace[p].pulled = "None") =>
            /\ gen[p].state = "raised"
            /\ gen[p].exc = "RuntimeError"
            /\ trace[p].delivered = << >>

\* C19: cache entries are write-once between the load and the save: no step
\* of a search changes or removes an item the cache holds, a search adds at
\* most the key of its own query, with the list it delivered, when it
\* completes; the cache is the loaded map with the keys added by the
\* searches that completed since, and that is the map a save writes.
C19_CacheEntriesWriteOnce ==
    /\ [](\A p \in active :
            (Cached(p) /\ pc[p] = "api") =>
                /\ DictKeys(cache[p]) =
                       DictKeys(trace[p].loaded) \cup trace[p].added
                /\ \A i \in 1..Len(trace[p].loaded) :
                       /\ i <= Len(cache[p])
                       /\ cache[p][i] = trace[p].loaded[i]
                /\ \A k \in trace[p].added :
                       \E o \in origin :
                           /\ o.key = k /\ o.by = p
                           /\ o.entries = DictGet(cache[p], k).val
                /\ (trace[p].call = "unbind" /\ trace[p].saved) =>
                       FileLoads /\ FileDict = cache[p])
    /\ [][\A p \in active :
            (Cached(p) /\ pc[p] = "api"
               /\ trace'[p].reads = trace[p].reads) =>
                /\ \A i \in 1..Len(cache[p]) :
                       /\ i <= Len(cache'[p])
                       /\ cache'[p][i] = cache[p][i]
                /\ DictKeys(cache'[p]) \subseteq
                       DictKeys(cache[p]) \cup { Key(p) }
                /\ cache'[p] # cache[p] =>
                       /\ ~trace[p].completed /\ trace'[p].completed
                       /\ DictGet(cache'[p], Key(p)) =
                              [found |-> TRUE, val |-> trace'[p].delivered]]_vars

C19_Witness ==
    \E p \in active :
        /\ Cached(p) /\ pc[p] = "api"
        /\ trace[p].call = "unbind" /\ trace[p].saved
        /\ Len(trace[p].loaded) = 1
        /\ Cardinality(trace[p].added) = 2
        /\ FileLoads /\ Len(FileDict) = 3
        /\ FileDict = cache[p]

\* C20: connect on a connection that is connected raises RuntimeError and
\* changes nothing: self.connection and, for the caching class, the
\* in-memory cache are after the call what they were before it.
C20_ConnectTwiceChangesNothing ==
    [][\A p \in active :
         (run'[p] = run[p] + 1 /\ trace'[p].call = "connect"
            /\ connection[p] # "None") =>
             /\ error'[p] = "RuntimeError"
             /\ connection'[p] = connection[p]
             /\ cache'[p] = cache[p]]_vars

=============================================================================
